---- MODULE Spec2Model ----
(***************************************************************************)
(* Model of the PIV pipeline of mechExperiment_visualization:              *)
(*   src/src/lib/open_piv/piv_analysis.py  analyze_and_save_frames         *)
(*   src/src/utils/create_video.py         create_video_from_images        *)
(*   src/src/main.py                       main                            *)
(*                                                                         *)
(* Floating point values are records [t, n]: t is "fin", "nan", "pinf" or  *)
(* "ninf" and n is the value of a finite number.  Finite numbers are       *)
(* integers; the inputs are multiples of 24 so that every mean, median and *)
(* division by a scaling factor the model performs is exact.               *)
(***************************************************************************)
EXTENDS Integers, Sequences, FiniteSets

\* ---------------------------------------------------------------- bounds
MaxFrames == 4
MaxStep == 2
MaxWindow == 3

\* ------------------------------------------------- floating point values
\* Largest finite double: what numpy.nan_to_num substitutes for +infinity.
FloatMax == 1000000

Fin(n) == [t |-> "fin", n |-> n]
NaN == [t |-> "nan", n |-> 0]
PInf == [t |-> "pinf", n |-> 0]
NInf == [t |-> "ninf", n |-> 0]

IsFinite(x) == x.t = "fin"

\* Rounds an out-of-range result to the infinity of its sign.
Round(n) == IF n > FloatMax THEN PInf ELSE IF n < -FloatMax THEN NInf ELSE Fin(n)

\* x ** 2 on a numpy array element.
Square(x) ==
  CASE x.t = "nan" -> NaN
    [] x.t = "pinf" -> PInf
    [] x.t = "ninf" -> PInf
    [] OTHER -> Round(x.n * x.n)

\* x + y on numpy array elements.
FAdd(x, y) ==
  CASE x.t = "nan" \/ y.t = "nan" -> NaN
    [] x.t = "pinf" -> IF y.t = "ninf" THEN NaN ELSE PInf
    [] x.t = "ninf" -> IF y.t = "pinf" THEN NaN ELSE NInf
    [] y.t = "pinf" -> PInf
    [] y.t = "ninf" -> NInf
    [] OTHER -> Round(x.n + y.n)

\* x / d for a non-negative Python number d (numpy semantics: no exception
\* on division by zero).
FDiv(x, d) ==
  CASE x.t = "nan" -> NaN
    [] x.t = "pinf" -> PInf
    [] x.t = "ninf" -> NInf
    [] d = 0 -> IF x.n > 0 THEN PInf ELSE IF x.n < 0 THEN NInf ELSE NaN
    [] OTHER -> Fin(x.n \div d)

RECURSIVE IsqrtFrom(_, _)
IsqrtFrom(n, r) == IF (r + 1) * (r + 1) > n THEN r ELSE IsqrtFrom(n, r + 1)

\* Largest r with r * r <= n.
Isqrt(n) == IsqrtFrom(n, 0)

\* numpy.sqrt of a non-negative element.
FSqrt(x) ==
  CASE x.t = "nan" -> NaN
    [] x.t = "pinf" -> PInf
    [] x.t = "ninf" -> NaN
    [] OTHER -> IF x.n < 0 THEN NaN ELSE Fin(Isqrt(x.n))

\* numpy.nan_to_num with its default arguments: NaN becomes 0, +infinity the
\* largest finite double and -infinity the most negative one.
nan_to_num(x) ==
  CASE x.t = "nan" -> 0
    [] x.t = "pinf" -> FloatMax
    [] x.t = "ninf" -> -FloatMax
    [] OTHER -> x.n

\* ------------------------------------------------------- grids and fields
\* The interrogation grid (x, y of get_coordinates) has two cells.
Cells == {1, 2}

\* scaling.uniform: u / scaling_factor, v / scaling_factor, cell by cell.
uniform(g, scaling_factor) == [c \in Cells |-> FDiv(g[c], scaling_factor)]

\* np.sqrt(u ** 2 + v ** 2), cell by cell.
Magnitude(u, v) == [c \in Cells |-> FSqrt(FAdd(Square(u[c]), Square(v[c])))]

SeqMax(a, b) == IF a > b THEN a ELSE b

\* np.nanmax(np.nan_to_num(magnitude)): nan_to_num leaves no NaN behind.
current_max_mag(u, v, scaling_factor) ==
  LET m == Magnitude(uniform(u, scaling_factor), uniform(v, scaling_factor))
  IN  SeqMax(nan_to_num(m[1]), nan_to_num(m[2]))

\* The filtered fields (u, v) that the external estimator and outlier filter
\* may hand back for a frame pair.
FieldSet ==
  { [u |-> <<Fin(72), Fin(0)>>, v |-> <<Fin(96), Fin(-24)>>],
    [u |-> <<NaN, Fin(24)>>, v |-> <<Fin(48), NaN>>],
    [u |-> <<PInf, Fin(0)>>, v |-> <<Fin(0), Fin(48)>>],
    [u |-> <<NInf, Fin(48)>>, v |-> <<NaN, Fin(0)>> ] }

\* ------------------------------------------------------------ aggregation
\* The values of cell c of grid `comp` ("u" or "v") over the window.
Column(window_data, comp, c) == [j \in 1..Len(window_data) |-> window_data[j][comp][c]]

NonNaN(xs) == SelectSeq(xs, LAMBDA x : x.t # "nan")

RECURSIVE FSum(_)
FSum(xs) == IF xs = <<>> THEN Fin(0) ELSE FAdd(Head(xs), FSum(Tail(xs)))

\* np.nanmean along the window axis for one cell: NaN entries are left out,
\* and a cell that is NaN in the whole window stays NaN.
nanmean(xs) ==
  LET ys == NonNaN(xs)
  IN  IF ys = <<>> THEN NaN ELSE FDiv(FSum(ys), Len(ys))

\* Position of a value in the order of the doubles.
Rank(x) ==
  CASE x.t = "pinf" -> FloatMax + 1
    [] x.t = "ninf" -> -FloatMax - 1
    [] OTHER -> x.n

\* Number of entries of ys that sort before position k (ties by position).
Before(ys, k) ==
  Cardinality({j \in 1..Len(ys) :
     Rank(ys[j]) < Rank(ys[k]) \/ (Rank(ys[j]) = Rank(ys[k]) /\ j < k)})

Sorted(ys) == [p \in 1..Len(ys) |-> ys[CHOOSE k \in 1..Len(ys) : Before(ys, k) = p - 1]]

\* np.nanmedian along the window axis for one cell.
nanmedian(xs) ==
  LET ys == Sorted(NonNaN(xs))
      n == Len(ys)
  IN  IF n = 0 THEN NaN
      ELSE IF n % 2 = 1 THEN ys[(n + 1) \div 2]
      ELSE FDiv(FAdd(ys[n \div 2], ys[n \div 2 + 1]), 2)

\* Lines 164-169: the aggregated raw grid of one component.
Aggregate(window_data, comp, averaging_method) ==
  [c \in Cells |->
     IF averaging_method = "median" THEN nanmedian(Column(window_data, comp, c))
     ELSE nanmean(Column(window_data, comp, c))]

\* -------------------------------------------------------------- file names
\* Width of the zero padding in the format specification 003d.
PadWidth == 3

RECURSIVE Digits(_)
\* Decimal digits of a non-negative integer, most significant first.
Digits(n) == IF n < 10 THEN <<n>> ELSE Append(Digits(n \div 10), n % 10)

RECURSIVE ZeroPad(_, _)
\* Pads on the left with zeros up to the width; longer numbers are not cut.
ZeroPad(ds, width) == IF Len(ds) >= width THEN ds ELSE ZeroPad(<<0>> \o ds, width)

\* Character codes of a digit string.
DigitChars(ds) == [j \in 1..Len(ds) |-> 48 + ds[j]]

\* f'img{frame_num:003d}.png' as a sequence of character codes.
ImgName(frame_num) ==
  <<105, 109, 103>> \o DigitChars(ZeroPad(Digits(frame_num), PadWidth)) \o <<46, 112, 110, 103>>

RECURSIVE StrLess(_, _)
\* a < b for Python strings.
StrLess(a, b) ==
  IF b = <<>> THEN FALSE
  ELSE IF a = <<>> THEN TRUE
  ELSE IF Head(a) # Head(b) THEN Head(a) < Head(b)
  ELSE StrLess(Tail(a), Tail(b))

\* sorted() of a set of distinct strings.
SortedNames(S) ==
  [p \in 1..Cardinality(S) |->
     CHOOSE a \in S : Cardinality({b \in S : StrLess(b, a)}) = p - 1]

\* ------------------------------------------------------------------ state
VARIABLES
  entry,            \* which program runs: "main" (main.py) or "piv" (piv_analysis.py)
  cfg,              \* main: the content of execData.jsonc and the command line
  mpc,              \* main: position in main()
  exec_flags,       \* main: the execution_function flags in force
  exit_status,      \* main: status of sys.exit, -1 while running
  call,             \* analysis: the arguments and the video behind video_path
  apc,              \* analysis: position in analyze_and_save_frames
  cap,              \* analysis: the cv2.VideoCapture handle
  cap_pos,          \* analysis: number of frames the handle has delivered
  frame_buffer,     \* analysis: stream positions of the buffered frames
  frame_index,
  frames_data,
  overall_max_mag,
  piv_calls,        \* analysis: the (frame_a, frame_b) pairs handed to the estimator
  vmax_to_use,
  i,                \* analysis: loop variable of Pass 2
  images,           \* analysis: what each savefig wrote, in order
  vpc,              \* video: position in create_video_from_images
  image_files,
  decodable,        \* video: the matching files cv2.imread can decode
  k,                \* video: 1-based position of the write loop in image_files
  video,            \* video: the cv2.VideoWriter handle
  video_releases,   \* video: number of video.release() calls made
  written           \* video: the file names of the frames written, in order

mainVars == <<cfg, mpc, exec_flags, exit_status>>
analysisVars == <<call, apc, cap, cap_pos, frame_buffer, frame_index, frames_data,
                  overall_max_mag, piv_calls, vmax_to_use, i, images>>
videoVars == <<vpc, image_files, decodable, k, video, video_releases, written>>
vars == <<entry, mainVars, analysisVars, videoVars>>

\* ------------------------------------------------------------------ inputs
ScalingFactors == {0, 2}
Overrides == {<<>>, <<0>>, <<60>>}      \* <<>> is None

\* A video that cannot be opened delivers no frame.
Calls ==
  { c \in [video_ok : BOOLEAN, K : 0..MaxFrames,
           frame_comparison_step : 1..MaxStep, moving_average_window : 1..MaxWindow,
           averaging_method : {"mean", "median"}, vmax_override : Overrides,
           scaling_factor : ScalingFactors] :
      ~c.video_ok => c.K = 0 }

\* The call main() makes when the profile leaves every optional key out
\* (lines 104-108), on a readable video.
DefaultCall ==
  [video_ok |-> TRUE, K |-> MaxFrames, frame_comparison_step |-> 1,
   moving_average_window |-> 1, averaging_method |-> "mean",
   vmax_override |-> <<>>, scaling_factor |-> 1]

Flags == SUBSET {"piv_analysis", "create_video"}

\* An absent block is a block without keys; a flag that is absent is off.
Configs ==
  { c \in [file : {"missing", "malformed", "ok"}, arg_config : BOOLEAN,
           default_execution : SUBSET {"execution_key", "execution_function"},
           default_flags : Flags, profile_found : BOOLEAN,
           profile : SUBSET {"execution_function", "piv_analysis", "create_video"},
           profile_flags : Flags,
           piv_analysis : SUBSET {"video_path", "output_dir"},
           create_video : SUBSET {"output_dir"}] :
      /\ c.file # "ok" =>
            /\ ~c.arg_config /\ c.default_execution = {} /\ ~c.profile_found
      /\ "execution_function" \notin c.default_execution => c.default_flags = {}
      /\ ~c.profile_found => c.profile = {}
      /\ "execution_function" \notin c.profile => c.profile_flags = {}
      /\ "piv_analysis" \notin c.profile => c.piv_analysis = {}
      /\ "create_video" \notin c.profile => c.create_video = {} }

\* A configuration on which nothing is enabled.
IdleConfig ==
  [file |-> "ok", arg_config |-> TRUE, default_execution |-> {"execution_function"},
   default_flags |-> {}, profile_found |-> TRUE, profile |-> {}, profile_flags |-> {},
   piv_analysis |-> {}, create_video |-> {}]

\* Frame indices of the image files the output directory may hold.
IndexSamples == {2, 10, 999, 1000}

Init ==
  /\ entry \in {"main", "piv"}
  /\ cfg \in Configs
  /\ call \in Calls \cup {DefaultCall}
  /\ entry = "main" => call = DefaultCall
  /\ entry = "piv" => cfg = IdleConfig /\ call \in Calls
  /\ mpc = IF entry = "main" THEN "load" ELSE "idle"
  /\ apc = IF entry = "piv" THEN "start" ELSE "idle"
  /\ exec_flags = {}
  /\ exit_status = -1
  /\ cap = "none"
  /\ cap_pos = 0
  /\ frame_buffer = <<>>
  /\ frame_index = 0
  /\ frames_data = <<>>
  /\ overall_max_mag = 0
  /\ piv_calls = <<>>
  /\ vmax_to_use = 0
  /\ i = 0
  /\ images = <<>>
  /\ vpc = "idle"
  /\ image_files = <<>>
  /\ decodable = {}
  /\ k = 0
  /\ video = "none"
  /\ video_releases = 0
  /\ written = <<>>

\* ------------------------------------------- analyze_and_save_frames (PIV)
AnalysisExits == {"open_failed", "insufficient", "no_frames", "finished"}

\* `return` of analyze_and_save_frames: back to the caller.
AnalysisReturn(how) ==
  /\ apc' = how
  /\ IF entry = "main"
       THEN /\ mpc' = "video"
            /\ UNCHANGED <<cfg, exec_flags, exit_status>>
       ELSE UNCHANGED mainVars

RECURSIVE ReadFrames(_, _, _, _)
ReadFrames(buffer, pos, K, n) ==
  IF n = 0 THEN [buffer |-> buffer, pos |-> pos]
  ELSE IF pos < K THEN ReadFrames(Append(buffer, pos + 1), pos + 1, K, n - 1)
  ELSE ReadFrames(buffer, pos, K, n - 1)

\* Variant of FillBuffer that reads one frame too few (range(step) in place
\* of range(step + 1)).
FillBufferShort(buffer, pos, K, n) == ReadFrames(buffer, pos, K, n - 1)

RECURSIVE FillBuffer(_, _, _, _)
\* Lines 72-76: n more cap.read() calls; a failed read appends nothing.
FillBuffer(buffer, pos, K, n) ==
  IF n = 0 THEN [buffer |-> buffer, pos |-> pos]
  ELSE IF pos < K THEN FillBuffer(Append(buffer, pos + 1), pos + 1, K, n - 1)
  ELSE FillBuffer(buffer, pos, K, n - 1)

\* Variant of PairOf that always pairs adjacent frames, whatever the step.
PairOfAdjacent(buffer, step) == <<buffer[1], buffer[2]>>

\* Lines 87-88: the pair taken from the buffer.
PairOf(buffer, step) == <<buffer[1], buffer[step + 1]>>

\* Lines 124-125.
UpdateMax(overall, current) == IF current > overall THEN current ELSE overall

\* Variant of ChooseVmax that tests the override for truth (`if vmax_override:`)
\* in place of `is not None`.
ChooseVmaxTruthy(overall, vmax_override) ==
  IF vmax_override # <<>> /\ vmax_override[1] # 0 THEN vmax_override[1] ELSE overall

\* Lines 143-146.
ChooseVmax(overall, vmax_override) ==
  IF vmax_override # <<>> THEN vmax_override[1] ELSE overall

\* Variant of num_images_to_save that drops the last window position.
num_images_off_by_one == Len(frames_data) - call.moving_average_window

\* Line 152.
num_images_to_save == Len(frames_data) - call.moving_average_window + 1

\* Line 182.
plot_scale(vmax) == IF vmax > 0 THEN vmax * 20 ELSE 30

\* Lines 155-208: what iteration idx of the Pass-2 loop hands to the renderer
\* and to savefig.
RenderedImage(data, idx, w, method, scaling_factor, vmax) ==
  LET window_data == SubSeq(data, idx + 1, idx + w)
      base_data == window_data[1]
      frame_num == base_data.frame_index
      agg_u_scaled == uniform(Aggregate(window_data, "u", method), scaling_factor)
      agg_v_scaled == uniform(Aggregate(window_data, "v", method), scaling_factor)
      magnitude == Magnitude(agg_u_scaled, agg_v_scaled)
  IN  [name |-> ImgName(frame_num),
       frame_num |-> frame_num,
       window |-> [j \in 1..Len(window_data) |-> window_data[j].frame_index],
       bg |-> base_data.bg,
       agg_u_scaled |-> agg_u_scaled,
       agg_v_scaled |-> agg_v_scaled,
       magnitude |-> magnitude,
       U |-> [c \in Cells |-> nan_to_num(agg_u_scaled[c])],
       V |-> [c \in Cells |-> -nan_to_num(agg_v_scaled[c])],
       C |-> [c \in Cells |-> nan_to_num(magnitude[c])],
       scale |-> plot_scale(vmax),
       vmax |-> vmax]

\* Lines 42-57: open the video.
OpenVideo ==
  /\ apc = "start"
  /\ IF call.video_ok
       THEN /\ cap' = "open"
            /\ apc' = "fill"
            /\ UNCHANGED mainVars
       ELSE /\ AnalysisReturn("open_failed")
            /\ UNCHANGED cap
  /\ UNCHANGED <<entry, call, cap_pos, frame_buffer, frame_index, frames_data,
                 overall_max_mag, piv_calls, vmax_to_use, i, images, videoVars>>

\* Variant of InitialFill whose insufficient-frames return leaves out
\* cap.release().
InitialFillLeak ==
  /\ apc = "fill"
  /\ LET f == FillBuffer(<<>>, cap_pos, call.K, call.frame_comparison_step + 1)
     IN  /\ frame_buffer' = f.buffer
         /\ cap_pos' = f.pos
         /\ IF Len(f.buffer) <= call.frame_comparison_step
              THEN AnalysisReturn("insufficient")
              ELSE /\ apc' = "loop"
                   /\ UNCHANGED mainVars
  /\ UNCHANGED <<entry, call, cap, frame_index, frames_data, overall_max_mag,
                 piv_calls, vmax_to_use, i, images, videoVars>>

\* Lines 69-84: fill the buffer with the first frame_comparison_step + 1 frames.
InitialFill ==
  /\ apc = "fill"
  /\ LET f == FillBuffer(<<>>, cap_pos, call.K, call.frame_comparison_step + 1)
     IN  /\ frame_buffer' = f.buffer
         /\ cap_pos' = f.pos
         /\ IF Len(f.buffer) <= call.frame_comparison_step
              THEN /\ cap' = "released"
                   /\ AnalysisReturn("insufficient")
              ELSE /\ apc' = "loop"
                   /\ UNCHANGED <<cap, mainVars>>
  /\ UNCHANGED <<entry, call, frame_index, frames_data, overall_max_mag, piv_calls,
                 vmax_to_use, i, images, videoVars>>

\* Lines 86-131: one iteration of the Pass-1 loop.
AnalyzePair ==
  /\ apc = "loop"
  /\ \E field \in FieldSet :
       LET pair == PairOf(frame_buffer, call.frame_comparison_step)
           frame_a == pair[1]
           frame_b == pair[2]
       IN  /\ frame_index' = frame_index + 1
           /\ piv_calls' = Append(piv_calls, <<frame_a, frame_b>>)
           /\ frames_data' = Append(frames_data,
                 [u |-> field.u, v |-> field.v, bg |-> frame_a,
                  frame_index |-> frame_index + 1])
           /\ overall_max_mag' = UpdateMax(overall_max_mag,
                 current_max_mag(field.u, field.v, call.scaling_factor))
  /\ IF cap_pos < call.K
       THEN /\ frame_buffer' = Append(Tail(frame_buffer), cap_pos + 1)
            /\ cap_pos' = cap_pos + 1
            /\ apc' = "loop"
       ELSE /\ frame_buffer' = Tail(frame_buffer)
            /\ cap_pos' = cap_pos
            /\ apc' = "collected"
  /\ UNCHANGED <<entry, mainVars, call, cap, vmax_to_use, i, images, videoVars>>

\* Lines 133-152: release the video, choose the color scale, enter Pass 2.
EndPass1 ==
  /\ apc = "collected"
  /\ cap' = "released"
  /\ IF frames_data = <<>>
       THEN /\ AnalysisReturn("no_frames")
            /\ UNCHANGED <<vmax_to_use, i>>
       ELSE /\ vmax_to_use' = ChooseVmax(overall_max_mag, call.vmax_override)
            /\ i' = 0
            /\ apc' = "pass2"
            /\ UNCHANGED mainVars
  /\ UNCHANGED <<entry, call, cap_pos, frame_buffer, frame_index, frames_data,
                 overall_max_mag, piv_calls, images, videoVars>>

\* Lines 153-209: one iteration of the Pass-2 loop.
RenderImage ==
  /\ apc = "pass2"
  /\ i < num_images_to_save
  /\ images' = Append(images,
        RenderedImage(frames_data, i, call.moving_average_window,
                      call.averaging_method, call.scaling_factor, vmax_to_use))
  /\ i' = i + 1
  /\ UNCHANGED <<entry, mainVars, call, apc, cap, cap_pos, frame_buffer, frame_index,
                 frames_data, overall_max_mag, piv_calls, vmax_to_use, videoVars>>

\* Lines 153, 211-212: the Pass-2 loop is over.
FinishAnalysis ==
  /\ apc = "pass2"
  /\ i >= num_images_to_save
  /\ AnalysisReturn("finished")
  /\ UNCHANGED <<entry, call, cap, cap_pos, frame_buffer, frame_index, frames_data,
                 overall_max_mag, piv_calls, vmax_to_use, i, images, videoVars>>

\* ------------------------------------------------ create_video_from_images
\* `return` of create_video_from_images: back to the caller.
VideoReturn(how) ==
  /\ vpc' = how
  /\ mpc' = "finish"
  /\ UNCHANGED <<cfg, exec_flags, exit_status>>

\* Variant of FramesAfter without the `is not None` test.
FramesAfterNoSkip(frames, file, readable) == Append(frames, file)

\* Lines 49-54: the frames written once `file` has been handled; a file
\* cv2.imread returns None for is skipped.
FramesAfter(frames, file, readable) ==
  IF file \in readable THEN Append(frames, file) ELSE frames

\* Lines 19-27: list and sort the matching files of the image folder.
ListImages ==
  /\ vpc = "start"
  /\ \E present \in SUBSET IndexSamples : \E readable \in SUBSET present :
       /\ image_files' = SortedNames({ImgName(n) : n \in present})
       /\ decodable' = {ImgName(n) : n \in readable}
       /\ IF present = {}
            THEN VideoReturn("no_images")
            ELSE /\ vpc' = "first"
                 /\ UNCHANGED mainVars
  /\ UNCHANGED <<entry, analysisVars, k, video, video_releases, written>>

\* Lines 29-46: read the first image for the frame size, open the writer.
OpenWriter ==
  /\ vpc = "first"
  /\ IF image_files[1] \in decodable
       THEN /\ video' = "open"
            /\ k' = 1
            /\ vpc' = "loop"
            /\ UNCHANGED mainVars
       ELSE /\ VideoReturn("first_unreadable")
            /\ UNCHANGED <<video, k>>
  /\ UNCHANGED <<entry, analysisVars, image_files, decodable, video_releases, written>>

\* Lines 48-54: one iteration of the write loop.
WriteFrame ==
  /\ vpc = "loop"
  /\ k <= Len(image_files)
  /\ written' = FramesAfter(written, image_files[k], decodable)
  /\ k' = k + 1
  /\ UNCHANGED <<entry, mainVars, analysisVars, vpc, image_files, decodable, video,
                 video_releases>>

\* Lines 48, 56-57: the loop is over, release the writer.
ReleaseWriter ==
  /\ vpc = "loop"
  /\ k > Len(image_files)
  /\ video' = "released"
  /\ video_releases' = video_releases + 1
  /\ VideoReturn("finished")
  /\ UNCHANGED <<entry, analysisVars, image_files, decodable, k, written>>

\* ------------------------------------------------------------------- main
\* Parameters of analyze_and_save_frames (piv_analysis.py, line 27).
SignatureParams ==
  {"video_path", "output_dir", "scaling_factor", "vmax_override",
   "frame_comparison_step", "moving_average_window", "averaging_method"}

\* Keyword arguments of the call in main() (main.py, lines 101-110).
CallKeywords ==
  {"video_path", "output_dir", "scaling_factor", "vmax_override",
   "frame_comparison_step", "moving_average_window", "averaging_method",
   "piv_params"}

\* Python binds a keyword call only if every keyword names a parameter;
\* otherwise the call raises TypeError before the function body runs.
CallBinds == CallKeywords \subseteq SignatureParams

\* sys.exit(status)
Exit(status) ==
  /\ mpc' = "exited"
  /\ exit_status' = status
  /\ UNCHANGED <<cfg, exec_flags>>

\* Lines 51-63: read and parse execData.jsonc.
LoadConfig ==
  /\ mpc = "load"
  /\ IF cfg.file = "ok"
       THEN /\ mpc' = "key"
            /\ UNCHANGED <<cfg, exec_flags, exit_status>>
       ELSE Exit(1)
  /\ UNCHANGED <<entry, analysisVars, videoVars>>

\* Lines 65-78: --config, or default_execution.execution_key.
SelectKey ==
  /\ mpc = "key"
  /\ IF cfg.arg_config \/ "execution_key" \in cfg.default_execution
       THEN /\ mpc' = "params"
            /\ UNCHANGED <<cfg, exec_flags, exit_status>>
       ELSE Exit(1)
  /\ UNCHANGED <<entry, analysisVars, videoVars>>

\* Lines 80-88: the profile and its flags.  The default of .get() is
\* evaluated before the call, so default_execution.execution_function is
\* looked up even when the profile has its own flags.
GetParams ==
  /\ mpc = "params"
  /\ IF cfg.profile_found /\ "execution_function" \in cfg.default_execution
       THEN /\ exec_flags' = IF "execution_function" \in cfg.profile
                               THEN cfg.profile_flags ELSE cfg.default_flags
            /\ mpc' = "piv"
            /\ UNCHANGED <<cfg, exit_status>>
       ELSE Exit(1)
  /\ UNCHANGED <<entry, analysisVars, videoVars>>

\* Required keys the PIV stage reads before the call (lines 95-98).
PivParamsPresent ==
  /\ "piv_analysis" \in cfg.profile
  /\ {"video_path", "output_dir"} \subseteq cfg.piv_analysis

\* Lines 90-118: the PIV stage.
PivStage ==
  /\ mpc = "piv"
  /\ IF "piv_analysis" \in exec_flags
       THEN IF PivParamsPresent /\ CallBinds
              THEN /\ apc' = "start"
                   /\ mpc' = "in_piv"
                   /\ UNCHANGED <<cfg, exec_flags, exit_status>>
              ELSE /\ Exit(1)
                   /\ UNCHANGED apc
       ELSE /\ mpc' = "video"
            /\ UNCHANGED <<cfg, exec_flags, exit_status, apc>>
  /\ UNCHANGED <<entry, call, cap, cap_pos, frame_buffer, frame_index, frames_data,
                 overall_max_mag, piv_calls, vmax_to_use, i, images, videoVars>>

\* Variant of VideoParamsPresent that reads the create_video block with
\* .get() and defaults.
VideoParamsLoose ==
  /\ "piv_analysis" \in cfg.profile
  /\ "output_dir" \in cfg.piv_analysis

\* Required keys the video stage reads before the call (lines 126-128).
VideoParamsPresent ==
  /\ "piv_analysis" \in cfg.profile
  /\ "output_dir" \in cfg.piv_analysis
  /\ "create_video" \in cfg.profile
  /\ "output_dir" \in cfg.create_video

\* Lines 120-145: the video stage.
VideoStage ==
  /\ mpc = "video"
  /\ IF "create_video" \in exec_flags
       THEN IF VideoParamsPresent
              THEN /\ vpc' = "start"
                   /\ mpc' = "in_video"
                   /\ UNCHANGED <<cfg, exec_flags, exit_status>>
              ELSE /\ Exit(1)
                   /\ UNCHANGED vpc
       ELSE /\ mpc' = "finish"
            /\ UNCHANGED <<cfg, exec_flags, exit_status, vpc>>
  /\ UNCHANGED <<entry, analysisVars, image_files, decodable, k, video, video_releases,
                 written>>

\* Lines 147-153: "Pipeline finished."; the interpreter exits with status 0.
PipelineFinished ==
  /\ mpc = "finish"
  /\ Exit(0)
  /\ UNCHANGED <<entry, analysisVars, videoVars>>

\* ---------------------------------------------------------- specification
Next ==
  \/ OpenVideo \/ InitialFill \/ AnalyzePair \/ EndPass1 \/ RenderImage
  \/ FinishAnalysis
  \/ ListImages \/ OpenWriter \/ WriteFrame \/ ReleaseWriter
  \/ LoadConfig \/ SelectKey \/ GetParams \/ PivStage \/ VideoStage
  \/ PipelineFinished

Spec == Init /\ [][Next]_vars

\* ================================================================= claims
Max(a, b) == IF a > b THEN a ELSE b

\* The video was opened and Pass 1 is over (whichever way it ended).
Pass1Over == apc \in {"collected", "pass2", "insufficient", "no_frames", "finished"}

\* C1: with stride s and K decodable frames the analysis handles exactly
\* K - s frame pairs when K > s; when K <= s it handles none, leaves by the
\* insufficient-frames exit and renders no image.
C1_PairCount ==
  Pass1Over =>
    IF call.K > call.frame_comparison_step
      THEN /\ Len(piv_calls) = call.K - call.frame_comparison_step
           /\ Len(frames_data) = call.K - call.frame_comparison_step
           /\ apc # "insufficient"
      ELSE /\ piv_calls = <<>>
           /\ frames_data = <<>>
           /\ apc = "insufficient"
           /\ images = <<>>

\* C1 witness: a finished run on 4 frames at stride 2 that analyzed 2 pairs.
C1_Witness ==
  /\ apc = "finished" /\ call.K = 4 /\ call.frame_comparison_step = 2
  /\ Len(frames_data) = 2

\* C2: once the analysis has returned, Pass 2 has saved exactly
\* max(N - w + 1, 0) images for N Pass-1 results and window size w; the image
\* of window position p (1-based here) aggregates results p .. p + w - 1 and
\* carries the name formatted from the frame index recorded for result p, so
\* the saved files are pairwise distinct.
C2_ImageCount ==
  apc \in AnalysisExits =>
    LET N == Len(frames_data)
        w == call.moving_average_window
    IN  /\ Len(images) = Max(N - w + 1, 0)
        /\ \A p \in 1..Len(images) :
             /\ images[p].window = [j \in 1..w |-> frames_data[p + j - 1].frame_index]
             /\ images[p].frame_num = frames_data[p].frame_index
             /\ images[p].name = ImgName(frames_data[p].frame_index)
        /\ \A p, q \in 1..Len(images) : images[p].name = images[q].name => p = q

\* C2 witness: 3 results and a window of 2 gave 2 images.
C2_Witness ==
  /\ apc = "finished" /\ call.moving_average_window = 2
  /\ Len(frames_data) = 3 /\ Len(images) = 2

\* The magnitude the specification counts for a cell: non-finite is zero.
FiniteOrZero(x) == IF IsFinite(x) THEN x.n ELSE 0

\* Largest element of a non-empty set of integers.
SetMax(S) == CHOOSE m \in S : \A x \in S : x <= m

\* Maximum finite scaled magnitude over all cells of the recorded pairs.
MaxFiniteMagnitude(data, scaling_factor) ==
  SetMax({0} \cup
    { FiniteOrZero(Magnitude(uniform(data[n].u, scaling_factor),
                             uniform(data[n].v, scaling_factor))[c]) :
        n \in 1..Len(data), c \in Cells })

\* C3 (as claimed): after any prefix of pairs, overall_max_mag is the largest
\* finite scaled magnitude seen so far, every NaN and every infinite
\* magnitude counting as zero.
C3_RunningMaxFinite ==
  overall_max_mag = MaxFiniteMagnitude(frames_data, call.scaling_factor)

\* C4 (as claimed): a main() run whose profile enables the PIV stage with
\* video_path and output_dir present, on a readable video, and whose video
\* stage is off or fully configured, analyzes the video and exits with 0.
C4_PivRunExitsZero ==
  (/\ entry = "main" /\ mpc = "exited"
   /\ "piv_analysis" \in exec_flags /\ PivParamsPresent /\ call.video_ok
   /\ ("create_video" \notin exec_flags \/ VideoParamsPresent))
  => (exit_status = 0 /\ apc \in {"insufficient", "no_frames", "finished"})

RECURSIVE DigitsValue(_)
DigitsValue(cs) ==
  IF cs = <<>> THEN 0
  ELSE 10 * DigitsValue(SubSeq(cs, 1, Len(cs) - 1)) + (cs[Len(cs)] - 48)

\* The frame index an image name carries: the digits between img and .png.
FrameIndexOf(name) == DigitsValue(SubSeq(name, 4, Len(name) - 4))

\* C5 (as claimed): the assembler's lexically sorted file list is in
\* ascending order of frame index, whatever indices Pass 2 may have written,
\* and so are the frames it writes.
C5_LexicalIsNumeric ==
  /\ \A a, b \in 1..Len(image_files) :
       a < b => FrameIndexOf(image_files[a]) < FrameIndexOf(image_files[b])
  /\ \A a, b \in 1..Len(written) :
       a < b => FrameIndexOf(written[a]) < FrameIndexOf(written[b])

RECURSIVE Pass1Max(_, _)
\* overall_max_mag as Pass 1 leaves it for the recorded fields.
Pass1Max(data, scaling_factor) ==
  IF data = <<>> THEN 0
  ELSE LET last == data[Len(data)]
       IN  UpdateMax(Pass1Max(SubSeq(data, 1, Len(data) - 1), scaling_factor),
                     current_max_mag(last.u, last.v, scaling_factor))

\* C6: an image exists only once every frame pair has been analyzed and the
\* stream is exhausted; every image carries the same color-scale upper bound,
\* the override when one is configured (0 included) and otherwise the final
\* overall_max_mag; and overall_max_mag depends on the fields and the scaling
\* factor only, not on the override.
C6_ScaleFixedBeforeRender ==
  /\ images # <<>> =>
       /\ apc \in {"pass2", "finished"}
       /\ cap_pos = call.K
       /\ Len(frames_data) = call.K - call.frame_comparison_step
  /\ \A p \in 1..Len(images) :
       images[p].vmax = IF call.vmax_override # <<>> THEN call.vmax_override[1]
                        ELSE overall_max_mag
  /\ overall_max_mag = Pass1Max(frames_data, call.scaling_factor)

\* C6 witness: two images rendered under an override of 0 although Pass 1
\* found a positive maximum.
C6_Witness ==
  /\ Len(images) = 2 /\ call.vmax_override = <<0>> /\ overall_max_mag > 0
  /\ images[2].vmax = 0

\* C7: once the first sorted file was readable, the frames written are
\* exactly the decodable files among those handled so far, in the sorted
\* order of the file list; at the end there is one frame per decodable file.
C7_FramesWritten ==
  /\ vpc \in {"loop", "finished"} =>
       /\ \A a, b \in 1..Len(image_files) :
            a < b => StrLess(image_files[a], image_files[b])
       /\ written = SelectSeq(SubSeq(image_files, 1, k - 1),
                              LAMBDA f : f \in decodable)
  /\ vpc = "finished" =>
       /\ k = Len(image_files) + 1
       /\ Len(written) = Cardinality(decodable)
  /\ vpc \notin {"loop", "finished"} => written = <<>>

\* C7 witness: three matching files, one of them undecodable, two frames.
C7_Witness ==
  /\ vpc = "finished" /\ Len(image_files) = 3 /\ Cardinality(decodable) = 2
  /\ Len(written) = 2

\* The flags in force: the profile's own, else the global ones.
FlagsInForce ==
  IF "execution_function" \in cfg.profile THEN cfg.profile_flags ELSE cfg.default_flags

\* The configuration errors: no readable document, no selected profile, or
\* an enabled stage without a parameter (block) it requires.
ConfigError ==
  \/ cfg.file # "ok"
  \/ ~cfg.arg_config /\ "execution_key" \notin cfg.default_execution
  \/ ~cfg.profile_found
  \/ "piv_analysis" \in FlagsInForce /\
       ("piv_analysis" \notin cfg.profile \/
        ~({"video_path", "output_dir"} \subseteq cfg.piv_analysis))
  \/ "create_video" \in FlagsInForce /\
       ("piv_analysis" \notin cfg.profile \/ "output_dir" \notin cfg.piv_analysis \/
        "create_video" \notin cfg.profile \/ "output_dir" \notin cfg.create_video)

\* C8: under a configuration error main() never starts the analysis nor the
\* video assembly, never reaches "Pipeline finished", and exits non-zero.
C8_ConfigErrorExit ==
  (entry = "main" /\ ConfigError) =>
    /\ apc = "idle"
    /\ vpc = "idle"
    /\ mpc \in {"load", "key", "params", "piv", "video", "exited"}
    /\ mpc = "exited" => exit_status # 0

\* C8 witness: only the video stage is enabled, the create_video block is
\* missing, and the process has exited with status 1.
C8_Witness ==
  /\ entry = "main" /\ mpc = "exited" /\ exit_status = 1
  /\ exec_flags = {"create_video"}
  /\ "create_video" \notin cfg.profile
  /\ "output_dir" \in cfg.piv_analysis

\* C9 (as claimed): every component and magnitude that is NaN or infinite
\* after aggregation and scaling reaches the renderer as zero.
C9_NonFiniteRenderedZero ==
  \A p \in 1..Len(images) : \A c \in Cells :
    /\ ~IsFinite(images[p].agg_u_scaled[c]) => images[p].U[c] = 0
    /\ ~IsFinite(images[p].agg_v_scaled[c]) => images[p].V[c] = 0
    /\ ~IsFinite(images[p].magnitude[c]) => images[p].C[c] = 0

\* C10: whenever Pass 1 is about to take a pair, the buffer holds exactly
\* s + 1 consecutive stream frames; the k-th analyzed pair is (frame k,
\* frame k + s), recorded with frame_index k and frame k as background.
C10_PairsInOrder ==
  /\ apc = "loop" =>
       /\ Len(frame_buffer) = call.frame_comparison_step + 1
       /\ \A j \in 1..Len(frame_buffer) : frame_buffer[j] = frame_buffer[1] + j - 1
       /\ frame_buffer[1] = Len(frames_data) + 1
  /\ Len(piv_calls) = Len(frames_data)
  /\ \A n \in 1..Len(frames_data) :
       /\ piv_calls[n] = <<n, n + call.frame_comparison_step>>
       /\ frames_data[n].frame_index = n
       /\ frames_data[n].bg = n

\* C10 witness: the second pair at stride 2 has been recorded.
C10_Witness ==
  /\ call.frame_comparison_step = 2 /\ Len(frames_data) = 2
  /\ piv_calls[2] = <<2, 4>>

\* C11: the decoding handle, once opened, stays open while Pass 1 reads from
\* it and is released on both ways out of Pass 1 (end of stream and the
\* insufficient-frames return) before any image is rendered and before the
\* function returns; a video that failed to open leaves no handle behind.
\* The encoding handle is open during the write loop and release() is
\* called on it exactly once, after the last file has been handled; it is
\* never opened on the returns that precede the writer.
C11_HandlesReleased ==
  /\ apc \in {"fill", "loop", "collected"} => cap = "open"
  /\ apc \in {"pass2", "insufficient", "no_frames", "finished"} => cap = "released"
  /\ apc = "open_failed" => cap = "none"
  /\ images # <<>> => cap = "released"
  /\ vpc = "loop" => video = "open" /\ video_releases = 0
  /\ vpc = "finished" =>
       /\ video = "released" /\ video_releases = 1
       /\ k = Len(image_files) + 1
  /\ vpc \in {"idle", "start", "first", "no_images", "first_unreadable"} =>
       video = "none" /\ video_releases = 0

\* C11 witness for the decoding handle: the insufficient-frames return was
\* taken on a video that opened, and the handle is released.
C11_Witness ==
  /\ apc = "insufficient" /\ call.video_ok /\ call.K = 2
  /\ call.frame_comparison_step = 2 /\ cap = "released"

====
